---------------------------- MODULE Spec2Model ----------------------------
(***************************************************************************)
(* Model of mcp-logic: the Prover9 engine (server.py), the Mace4 wrapper   *)
(* (mace4_wrapper.py) and the formula syntax validator                     *)
(* (syntax_validator.py).                                                  *)
(*                                                                         *)
(* Text is modelled as a sequence of lexemes: every literal the code       *)
(* searches for ("THEOREM PROVED", "PROOF =", "====", ".", "(", ...) is    *)
(* one lexeme, so `marker in text` is membership, str.split cuts at the    *)
(* separator lexeme and string concatenation is \o.                        *)
(*                                                                         *)
(* The specifications share the variables:                                 *)
(*   Spec         one solver invocation: _run_prover / _run_mace4, and the *)
(*                response handle_call_tool makes of the prover's outcome  *)
(*   SpecBuild    the input builders: _create_input_file of both engines   *)
(*   SpecValidate SyntaxValidator.validate and validate_formulas           *)
(*   SpecStartup  construction of LogicEngine and Mace4Wrapper             *)
(*   SpecModel    _run_mace4 on a finished search, with _parse_model       *)
(*   SpecPool     several tool invocations at once, sharing the temp area  *)
(*   SpecCompose  CategoricalHelpers.verify_commutativity                  *)
(***************************************************************************)
EXTENDS Integers, Sequences, FiniteSets, TLC

VARIABLES
    pc,           \* position of the invocation / of the component under study
    kind,         \* "prover" | "mace4": which wrapper runs
    timeout,      \* the timeout argument of _run_prover / _run_mace4
    fileExists,   \* does the input artifact exist on disk
    proc,         \* what subprocess.run did: event, stdout, stderr
    result,       \* the value chosen by a return statement of the try block
    returned,     \* what the caller received
    raised,       \* TRUE when an exception left the function
    unlinkCalls,  \* number of input_path.unlink() calls made
    unlinkOk,     \* TRUE when the unlink call deleted the file
    request,      \* arguments of the builder call
    content,      \* text written to the input artifact
    formula,      \* argument of SyntaxValidator.validate
    validator,    \* the SyntaxValidator instance: the lists self.errors and
                  \* self.warnings are bound to
    report,       \* (is_valid, errors, warnings) returned by validate, the
                  \* lists as they read at the return
    iterOrder,    \* iteration order of the set QUANTIFIERS in this process
    heap,         \* the list objects made so far: heap[id] is what list id holds
    results,      \* the dict validate_formulas returns; it holds lists by id
    binDir,       \* names of the files in the binaries directory
    engine,       \* the LogicEngine instance: prover_exe, if constructed
    wrapper,      \* the Mace4Wrapper instance: mace4_exe, if constructed
    startup,      \* how construction ended, and the tool calls served since
    tmpDir,       \* the temporary-files area: what each name holds
    invocations,  \* the tool invocations in progress: pc, tool, path, outcome
    paths,        \* arguments of verify_commutativity
    axioms,       \* (premises, conclusion) returned by verify_commutativity
    response      \* what handle_call_tool answers

vars == <<pc, kind, timeout, fileExists, proc, result, returned, raised,
          unlinkCalls, unlinkOk, request, content, formula, validator, report,
          iterOrder, heap, results,
          binDir, engine, wrapper, startup, tmpDir, invocations, paths, axioms,
          response>>

runVars == <<kind, timeout, fileExists, proc, result, returned, raised,
             unlinkCalls, unlinkOk>>
buildVars == <<request, content>>
validateVars == <<formula, validator, report, iterOrder, heap, results>>
startVars == <<binDir, engine, wrapper, startup>>
\* the variables of the specifications that follow the first three
poolVars == <<tmpDir, invocations>>
composeVars == <<paths, axioms>>
handlerVars == <<response>>
moreVars == <<startVars, poolVars, composeVars, handlerVars>>

-----------------------------------------------------------------------------
(* Bounds of the model *)

\* longest solver stdout, in lexemes
MaxOut == 4
\* longest formula, in lexemes
MaxFormulaLen == 2
\* most premises in one request
MaxPremises == 2
\* largest domain size a request asks for
MaxDomain == 2
\* longest validated formula, in phrases
MaxPhrases == 3
\* most formulas in one validate_formulas call
MaxBatch == 2
\* longest Mace4 output handed to _parse_model, in phrases
MaxModelPhrases == 3
\* most tool invocations in progress at once
MaxInvocations == 2
\* longest morphism path
MaxPath == 3

-----------------------------------------------------------------------------
(* Generic text helpers *)

Range(s) == {s[i] : i \in 1..Len(s)}

SeqsUpTo(S, n) == UNION {[1..k -> S] : k \in 0..n}

\* str.find(tok) + 1: index of the first occurrence from position `from`, 0 if none
FindFrom(s, tok, from) ==
    IF \E i \in from..Len(s) : s[i] = tok
    THEN CHOOSE i \in from..Len(s) :
            s[i] = tok /\ \A j \in from..(i - 1) : s[j] # tok
    ELSE 0

\* str.split(sep): the list of pieces between occurrences of sep
RECURSIVE Split(_, _)
Split(s, sep) ==
    LET i == FindFrom(s, sep, 1)
    IN  IF i = 0 THEN <<s>>
        ELSE <<SubSeq(s, 1, i - 1)>> \o Split(SubSeq(s, i + 1, Len(s)), sep)

IsSpace(tok) == tok \in {" ", "\n"}

\* str.lstrip() / str.rstrip() / str.strip()
RECURSIVE LStrip(_)
LStrip(s) == IF s # <<>> /\ IsSpace(Head(s)) THEN LStrip(Tail(s)) ELSE s

RECURSIVE RStrip(_)
RStrip(s) ==
    IF s # <<>> /\ IsSpace(s[Len(s)]) THEN RStrip(SubSeq(s, 1, Len(s) - 1)) ELSE s

Strip(s) == LStrip(RStrip(s))

-----------------------------------------------------------------------------
(* Solver invocation: LogicEngine._run_prover, Mace4Wrapper._run_mace4 *)

\* default value of the timeout parameter
DefaultTimeout == 60
\* timeout check-well-formed passes
CheckTimeout == 5

TP == "THEOREM PROVED"
SF == "SEARCH FAILED"
PM == "PROOF ="
DL == "===="
FE == "Fatal error"
DS == "DOMAIN SIZE"
IP == "interpretation("
ST == "SEARCH TERMINATED"
TXT == "txt"
WS == " "

ProverLexemes == {TP, SF, PM, DL, TXT, WS}
Mace4Lexemes == {DS, IP, SF, ST, FE, TXT}
StdErrs == {<<>>, <<FE>>, <<TXT>>, <<TXT, FE>>}

NoProc == [event |-> "none", stdout |-> <<>>, stderr |-> <<>>]
NoResult == [result |-> "none"]

\* f"... exceeded {timeout} seconds"
TimeoutReason(what, t) == <<what, ToString(t), "seconds">>

\* ProverClassify with the stderr check moved to the front of the chain
ProverClassifyStderrFirst(stdout, stderr) ==
    IF FE \in Range(stderr)
    THEN [result |-> "error", reason |-> <<"Syntax error">>, error |-> stderr]
    ELSE IF TP \in Range(stdout)
    THEN IF Len(Split(stdout, PM)) < 2
         THEN [result |-> "error", reason |-> <<"list index out of range">>]
         ELSE [result |-> "proved",
               proof |-> Strip(Split(Split(stdout, PM)[2], DL)[1]),
               complete_output |-> stdout]
    ELSE IF SF \in Range(stdout)
    THEN [result |-> "unprovable", reason |-> <<"Proof search failed">>,
          complete_output |-> stdout]
    ELSE [result |-> "error", reason |-> <<"Unexpected output">>,
          output |-> stdout, error |-> stderr]

\* the if/elif chain over result.stdout / result.stderr in _run_prover;
\* .split("PROOF =")[1] raises IndexError, caught by `except Exception`
ProverClassify(stdout, stderr) ==
    IF TP \in Range(stdout)
    THEN IF Len(Split(stdout, PM)) < 2
         THEN [result |-> "error", reason |-> <<"list index out of range">>]
         ELSE [result |-> "proved",
               proof |-> Strip(Split(Split(stdout, PM)[2], DL)[1]),
               complete_output |-> stdout]
    ELSE IF SF \in Range(stdout)
    THEN [result |-> "unprovable", reason |-> <<"Proof search failed">>,
          complete_output |-> stdout]
    ELSE IF FE \in Range(stderr)
    THEN [result |-> "error", reason |-> <<"Syntax error">>, error |-> stderr]
    ELSE [result |-> "error", reason |-> <<"Unexpected output">>,
          output |-> stdout, error |-> stderr]

\* ProverTry with `except Exception` placed before `except TimeoutExpired`
ProverTryGenericFirst(p, t) ==
    CASE p.event = "timeout" ->
            [result |-> "error", reason |-> TimeoutReason("Command timed out after", t)]
      [] p.event = "oserror" ->
            [result |-> "error", reason |-> <<"[Errno 2] No such file or directory">>]
      [] OTHER -> ProverClassify(p.stdout, p.stderr)

\* the try block of _run_prover with its two except clauses
ProverTry(p, t) ==
    CASE p.event = "timeout" ->
            [result |-> "timeout", reason |-> TimeoutReason("Proof search exceeded", t)]
      [] p.event = "oserror" ->
            [result |-> "error", reason |-> <<"[Errno 2] No such file or directory">>]
      [] OTHER -> ProverClassify(p.stdout, p.stderr)

\* Mace4Classify with the "SEARCH FAILED" check moved to the front of the chain
Mace4ClassifySearchFirst(stdout, stderr) ==
    IF SF \in Range(stdout) \/ ST \in Range(stdout)
    THEN [result |-> "no_model_found",
          reason |-> <<"No finite model found within domain size limits">>,
          complete_output |-> stdout]
    ELSE IF DS \in Range(stdout) /\ IP \in Range(stdout)
    THEN [result |-> "model_found", complete_output |-> stdout]
    ELSE IF FE \in Range(stderr) \/ FE \in Range(stdout)
    THEN [result |-> "error", reason |-> <<"Syntax error or invalid input">>,
          error |-> IF stderr # <<>> THEN stderr ELSE stdout]
    ELSE [result |-> "unknown", reason |-> <<"Unexpected Mace4 output">>,
          output |-> stdout, error |-> stderr]

\* the if/elif chain of _run_mace4; the "model" entry that _parse_model adds
\* to a model_found outcome is not part of the record
Mace4Classify(stdout, stderr) ==
    IF DS \in Range(stdout) /\ IP \in Range(stdout)
    THEN [result |-> "model_found", complete_output |-> stdout]
    ELSE IF SF \in Range(stdout) \/ ST \in Range(stdout)
    THEN [result |-> "no_model_found",
          reason |-> <<"No finite model found within domain size limits">>,
          complete_output |-> stdout]
    ELSE IF FE \in Range(stderr) \/ FE \in Range(stdout)
    THEN [result |-> "error", reason |-> <<"Syntax error or invalid input">>,
          error |-> IF stderr # <<>> THEN stderr ELSE stdout]
    ELSE [result |-> "unknown", reason |-> <<"Unexpected Mace4 output">>,
          output |-> stdout, error |-> stderr]

\* the try block of _run_mace4 with its two except clauses
Mace4Try(p, t) ==
    CASE p.event = "timeout" ->
            [result |-> "timeout", reason |-> TimeoutReason("Model search exceeded", t)]
      [] p.event = "oserror" ->
            [result |-> "error", reason |-> <<"[Errno 2] No such file or directory">>]
      [] OTHER -> Mace4Classify(p.stdout, p.stderr)

\* what subprocess.run can do: exit with captured output, TimeoutExpired, OSError
SolverRuns(lexemes) ==
    {[event |-> "exit", stdout |-> o, stderr |-> e] :
        o \in SeqsUpTo(lexemes, MaxOut), e \in StdErrs}
    \cup {[event |-> "timeout", stdout |-> <<>>, stderr |-> <<>>],
          [event |-> "oserror", stdout |-> <<>>, stderr |-> <<>>]}

\* what Path.unlink() can do
UnlinkOutcomes(exists) ==
    IF exists THEN {"ok", "PermissionError"} ELSE {"FileNotFoundError"}

\* `except:` in the finally block of _run_prover
ProverSwallows(exc) == TRUE

\* Mace4Swallows catching only the already-gone case
Mace4SwallowsOnlyMissing(exc) == exc = "FileNotFoundError"

\* `except (FileNotFoundError, PermissionError, OSError):` in _run_mace4
Mace4Swallows(exc) == exc \in {"FileNotFoundError", "PermissionError", "OSError"}

RunInit ==
    /\ kind = "none"
    /\ timeout = 0
    /\ fileExists = FALSE
    /\ proc = NoProc
    /\ result = NoResult
    /\ returned = NoResult
    /\ raised = FALSE
    /\ unlinkCalls = 0
    /\ unlinkOk = FALSE

BuildIdle == request = [tool |-> "none"] /\ content = <<>>
ValidateIdle ==
    /\ formula = <<>>
    /\ validator = [errors |-> 0, warnings |-> 0]
    /\ report = [is_valid |-> TRUE, errors |-> <<>>, warnings |-> <<>>]
    /\ iterOrder = <<>>
    /\ heap = <<>>
    /\ results = [valid |-> TRUE, formula_results |-> <<>>]

\* no instance constructed yet
NoInstance == <<>>
StartIdle ==
    /\ binDir = {}
    /\ engine = NoInstance
    /\ wrapper = NoInstance
    /\ startup = [outcome |-> "none", served |-> <<>>]

\* the names mkstemp can give out, and the invocations
TmpNames == 1..MaxInvocations
Invocations == 1..MaxInvocations

NoFile == [exists |-> FALSE, content |-> 0, creator |-> 0]
NoInvocation ==
    [pc |-> "new", tool |-> "none", path |-> 0, read |-> 0, removed |-> 0,
     outcome |-> NoResult]

PoolIdle ==
    /\ tmpDir = [n \in TmpNames |-> NoFile]
    /\ invocations = [i \in Invocations |-> NoInvocation]

ComposeIdle ==
    /\ paths = [path_a |-> <<>>, path_b |-> <<>>]
    /\ axioms = [premises |-> <<>>, conclusion |-> <<>>]

NoResponse == [tool |-> "none"]

Init ==
    /\ pc = "idle"
    /\ RunInit /\ BuildIdle /\ ValidateIdle /\ StartIdle /\ PoolIdle /\ ComposeIdle
    /\ response = NoResponse

\* handle_call_tool: prove (default timeout) and check-well-formed (timeout=5)
\* create the artifact and call _run_prover on it
CallRunProver ==
    /\ pc = "idle"
    /\ \E t \in {DefaultTimeout, CheckTimeout} : timeout' = t
    /\ kind' = "prover"
    /\ fileExists' = TRUE
    /\ pc' = "try"
    /\ UNCHANGED <<proc, result, returned, raised, unlinkCalls, unlinkOk>>
    /\ UNCHANGED <<buildVars, validateVars, moreVars>>

\* find_model / find_counterexample create the artifact and call _run_mace4
\* with the default timeout
CallRunMace4 ==
    /\ pc = "idle"
    /\ timeout' = DefaultTimeout
    /\ kind' = "mace4"
    /\ fileExists' = TRUE
    /\ pc' = "try"
    /\ UNCHANGED <<proc, result, returned, raised, unlinkCalls, unlinkOk>>
    /\ UNCHANGED <<buildVars, validateVars, moreVars>>

RunProverTry ==
    /\ pc = "try" /\ kind = "prover"
    /\ \E p \in SolverRuns(ProverLexemes) :
          /\ proc' = p
          /\ result' = ProverTry(p, timeout)
    /\ pc' = "finally"
    /\ UNCHANGED <<kind, timeout, fileExists, returned, raised, unlinkCalls, unlinkOk>>
    /\ UNCHANGED <<buildVars, validateVars, moreVars>>

RunMace4Try ==
    /\ pc = "try" /\ kind = "mace4"
    /\ \E p \in SolverRuns(Mace4Lexemes) :
          /\ proc' = p
          /\ result' = Mace4Try(p, timeout)
    /\ pc' = "finally"
    /\ UNCHANGED <<kind, timeout, fileExists, returned, raised, unlinkCalls, unlinkOk>>
    /\ UNCHANGED <<buildVars, validateVars, moreVars>>

\* the except clause of the finally block of wrapper k
Swallows(k, exc) == IF k = "prover" THEN ProverSwallows(exc) ELSE Mace4Swallows(exc)

\* finally: try: input_path.unlink() except ...: pass
Finally(k) ==
    /\ pc = "finally" /\ kind = k
    /\ \E oc \in UnlinkOutcomes(fileExists) :
          /\ unlinkOk' = (oc = "ok")
          /\ fileExists' = IF oc = "ok" THEN FALSE ELSE fileExists
          /\ raised' = ~(oc = "ok" \/ Swallows(k, oc))
    /\ unlinkCalls' = unlinkCalls + 1
    /\ pc' = "cleaned"
    /\ UNCHANGED <<kind, timeout, proc, result, returned>>
    /\ UNCHANGED <<buildVars, validateVars, moreVars>>

\* RunProverFinally with the unlink at the end of the try block instead of in
\* a finally block: the except paths skip it
RunProverUnlinkInTry ==
    /\ kind = "prover"
    /\ IF proc.event = "exit"
          /\ ~(TP \in Range(proc.stdout) /\ PM \notin Range(proc.stdout))
       THEN Finally("prover")
       ELSE /\ pc = "finally"
            /\ pc' = "cleaned"
            /\ UNCHANGED <<runVars, buildVars, validateVars, moreVars>>

RunProverFinally == Finally("prover")

RunMace4Finally == Finally("mace4")

\* the function hands the chosen value to its caller, unless the finally
\* block raised
Return ==
    /\ pc = "cleaned"
    /\ returned' = IF raised THEN NoResult ELSE result
    /\ pc' = "returned"
    /\ UNCHANGED <<kind, timeout, fileExists, proc, result, raised, unlinkCalls, unlinkOk>>
    /\ UNCHANGED <<buildVars, validateVars, moreVars>>

\* results.get("error", "")
ErrorEntry(outcome) == IF "error" \in DOMAIN outcome THEN outcome.error ELSE <<>>

\* is_valid as it would be if every `error` outcome counted as malformed
IsValidUnlessError(outcome) == outcome.result # "error"

\* is_valid = "Fatal error" not in str(results.get("error", ""))
IsValid(outcome) == FE \notin Range(ErrorEntry(outcome))

\* handle_call_tool after _run_prover has returned: the text it answers
\* with, for prove and for check-well-formed (the call with timeout=5); an
\* exception is answered by the except clause of the handler
Respond ==
    /\ pc = "returned"
    /\ kind = "prover"
    /\ response' =
          IF raised THEN [tool |-> "error"]
          ELSE IF timeout = CheckTimeout
          THEN [tool |-> "check-well-formed",
                valid |-> IsValid(returned), details |-> returned]
          ELSE [tool |-> "prove", results |-> returned]
    /\ pc' = "responded"
    /\ UNCHANGED <<runVars, buildVars, validateVars>>
    /\ UNCHANGED <<startVars, poolVars, composeVars>>

Next ==
    \/ CallRunProver
    \/ CallRunMace4
    \/ RunProverTry
    \/ RunMace4Try
    \/ RunProverFinally
    \/ RunMace4Finally
    \/ Return
    \/ Respond

Spec == Init /\ [][Next]_vars

-----------------------------------------------------------------------------
(* Properties of one solver invocation *)

ProverTags == {"proved", "unprovable", "error", "timeout"}
Mace4Tags == {"model_found", "no_model_found", "error", "unknown", "timeout"}

\* the try block has run: the solver finished, timed out or failed to start
SolverRan == pc \in {"finally", "cleaned", "returned"}

\* C1 as stated: whichever path the call took, the artifact no longer exists
\* when the call returns, after exactly one deletion.
C1_ArtifactGoneAtReturn ==
    pc = "returned" => (~fileExists /\ unlinkCalls = 1)

\* C1 (amended): on every path exactly one deletion attempt is made, after the
\* solver run and before the return; the artifact is gone at return exactly
\* when that attempt succeeded, and is left in place when unlink failed.
C1_OneCleanupAttempt ==
    /\ pc \in {"try", "finally"} => (unlinkCalls = 0 /\ fileExists)
    /\ pc \in {"cleaned", "returned"} =>
          (unlinkCalls = 1 /\ (fileExists <=> ~unlinkOk))

\* C1 witness: the output parser raised (THEOREM PROVED without "PROOF ="),
\* the call returned and the artifact is gone.
C1_Witness ==
    /\ pc = "returned" /\ kind = "prover" /\ proc.event = "exit"
    /\ TP \in Range(proc.stdout) /\ PM \notin Range(proc.stdout)
    /\ ~fileExists /\ unlinkCalls = 1

\* C2: neither function raises, whatever the solver did and even when unlink
\* fails; the caller receives the value chosen in the try block, and its tag
\* is in the closed set of the wrapper.
C2_NeverRaises ==
    /\ ~raised
    /\ SolverRan =>
          result.result \in (IF kind = "prover" THEN ProverTags ELSE Mace4Tags)
    /\ pc = "returned" => returned = result

\* C2 witness: Mace4 found a model, unlink failed, the outcome was returned.
C2_Witness ==
    /\ pc = "returned" /\ kind = "mace4" /\ ~unlinkOk /\ fileExists
    /\ returned.result = "model_found"

\* C3: a solver that exceeds the timeout gives outcome `timeout` whose reason
\* carries the timeout value, never `error`; `timeout` is returned only then;
\* and an invocation that has started can always take its next step.
C3_TimeoutOutcome ==
    /\ (SolverRan /\ proc.event = "timeout") =>
          (result.result = "timeout" /\ result.reason[2] = ToString(timeout))
    /\ (SolverRan /\ result.result = "timeout") => proc.event = "timeout"
    /\ pc = "returned" => ((returned.result = "timeout") <=> (proc.event = "timeout"))
    /\ pc \in {"try", "finally", "cleaned"} => ENABLED Next

\* C3 witness: check-well-formed's 5 second timeout expired and was reported.
C3_Witness ==
    /\ pc = "returned" /\ kind = "prover" /\ proc.event = "timeout"
    /\ timeout = CheckTimeout
    /\ returned.result = "timeout" /\ returned.reason[2] = "5"

ProverExited == pc = "returned" /\ kind = "prover" /\ proc.event = "exit"

\* the rules below "THEOREM PROVED" in the prover's chain
ProverLowerRules ==
    IF SF \in Range(proc.stdout)
    THEN returned.result = "unprovable"
    ELSE IF FE \in Range(proc.stderr)
    THEN /\ returned.result = "error"
         /\ returned.reason = <<"Syntax error">>
    ELSE /\ returned.result = "error"
         /\ returned.reason = <<"Unexpected output">>
         /\ returned.output = proc.stdout
         /\ returned.error = proc.stderr

\* C4 as stated: the outcome is that of the highest-priority marker present;
\* "THEOREM PROVED" in stdout always gives proved.
C4_MarkerPriority ==
    ProverExited =>
        IF TP \in Range(proc.stdout)
        THEN returned.result = "proved"
        ELSE ProverLowerRules

\* C4 (amended): first match wins in the stated order, except that "THEOREM
\* PROVED" gives proved only when stdout also contains "PROOF ="; without it
\* the outcome is error, carrying the text of the extraction's exception.
C4_MarkerPriorityAmended ==
    ProverExited =>
        IF TP \in Range(proc.stdout)
        THEN IF PM \in Range(proc.stdout)
             THEN returned.result = "proved"
             ELSE /\ returned.result = "error"
                  /\ returned.reason = <<"list index out of range">>
        ELSE ProverLowerRules

\* C4 witness: "THEOREM PROVED" and "PROOF =" in stdout, "Fatal error" in
\* stderr, classified as proved.
C4_Witness ==
    /\ ProverExited
    /\ TP \in Range(proc.stdout) /\ PM \in Range(proc.stdout)
    /\ FE \in Range(proc.stderr)
    /\ returned.result = "proved"

\* C5: with "THEOREM PROVED" in stdout, the outcome is error unless both
\* "PROOF =" and a later "====" are found; proved carries the trimmed text
\* between the first "PROOF =" and the next "====".
C5_ProofDelimiters ==
    (ProverExited /\ TP \in Range(proc.stdout)) =>
        LET i == FindFrom(proc.stdout, PM, 1)
            j == IF i = 0 THEN 0 ELSE FindFrom(proc.stdout, DL, i + 1)
        IN  IF i = 0 \/ j = 0
            THEN returned.result = "error"
            ELSE /\ returned.result = "proved"
                 /\ returned.proof = Strip(SubSeq(proc.stdout, i + 1, j - 1))

\* C6: the model finder's outcome is that of the first matching rule, in the
\* order model_found, no_model_found, error, unknown; unknown carries both
\* streams; every output gets an outcome.
C6_Mace4Priority ==
    (pc = "returned" /\ kind = "mace4" /\ proc.event = "exit") =>
        LET out == Range(proc.stdout)
            err == Range(proc.stderr)
        IN  /\ returned.result \in Mace4Tags \ {"timeout"}
            /\ IF DS \in out /\ IP \in out
               THEN returned.result = "model_found"
               ELSE IF SF \in out \/ ST \in out
               THEN returned.result = "no_model_found"
               ELSE IF FE \in err \/ FE \in out
               THEN returned.result = "error"
               ELSE /\ returned.result = "unknown"
                    /\ returned.output = proc.stdout
                    /\ returned.error = proc.stderr

\* C6 witness: all markers at once; the model wins.
C6_Witness ==
    /\ pc = "returned" /\ kind = "mace4"
    /\ {DS, IP, SF} \subseteq Range(proc.stdout)
    /\ FE \in Range(proc.stderr)
    /\ returned.result = "model_found"

-----------------------------------------------------------------------------
(* Input builders: LogicEngine._create_input_file,                         *)
(* Mace4Wrapper._create_input_file, and the entry points that call them    *)

ATOM == "P(b)"
DOT == "."
NL == "\n"

\* value of the max_seconds directive written by Mace4Wrapper
MaxSeconds == 60
\* the default search starts at domain size 2 and stops at 10
StartSize == 2
EndSize == 10

Formulas == SeqsUpTo({ATOM, DOT}, MaxFormulaLen)
PremiseLists == SeqsUpTo(Formulas, MaxPremises)
\* Optional[int]: <<>> is None
DomainSizes == {<<>>} \cup {<<n>> : n \in 1..MaxDomain}

\* str.endswith(".")
EndsWithDot(f) == f # <<>> /\ f[Len(f)] = DOT

\* str.rstrip("."): drops every trailing period
RECURSIVE RStripDots(_)
RStripDots(f) == IF EndsWithDot(f) THEN RStripDots(SubSeq(f, 1, Len(f) - 1)) ELSE f

\* Terminated with the period appended unconditionally
TerminatedAlways(f) == f \o <<DOT>>

\* p if p.endswith(".") else p + "."
Terminated(f) == IF EndsWithDot(f) THEN f ELSE f \o <<DOT>>

\* "\n".join(lines)
RECURSIVE Join(_)
Join(lines) ==
    IF lines = <<>> THEN <<>>
    ELSE IF Len(lines) = 1 THEN lines[1]
    ELSE lines[1] \o <<NL>> \o Join(Tail(lines))

\* LogicEngine._create_input_file: the text written to the artifact
ProverCreateInputFile(premises, goal) ==
    Join(<< <<"formulas(assumptions).">> >>
         \o [i \in 1..Len(premises) |-> Terminated(premises[i])]
         \o << <<"end_of_list.">>,
               <<>>,
               <<"formulas(goals).">>,
               Terminated(goal),
               <<"end_of_list.">> >>)

\* Mace4Directives with the end_size ceiling written in both branches
Mace4DirectivesAlwaysEndSize(domain_size) ==
    (IF domain_size # <<>>
     THEN << <<"assign(domain_size, ", ToString(domain_size[1]), ").">>,
             <<"assign(end_size, ", ToString(EndSize), ").">> >>
     ELSE << <<"assign(domain_size, ", ToString(StartSize), ").">>,
             <<"assign(end_size, ", ToString(EndSize), ").">> >>)
    \o << <<"assign(max_seconds, ", ToString(MaxSeconds), ").">>, <<>> >>

\* the directive lines at the head of the Mace4 input
Mace4Directives(domain_size) ==
    (IF domain_size # <<>>
     THEN << <<"assign(domain_size, ", ToString(domain_size[1]), ").">> >>
     ELSE << <<"assign(domain_size, ", ToString(StartSize), ").">>,
             <<"assign(end_size, ", ToString(EndSize), ").">> >>)
    \o << <<"assign(max_seconds, ", ToString(MaxSeconds), ").">>, <<>> >>

\* `if goal:` is false for None and for the empty string
Truthy(goal) == goal # <<>> /\ goal[1] # <<>>

\* the goals block of the Mace4 input: the negated goal
Mace4GoalBlock(goal) ==
    IF Truthy(goal)
    THEN << <<"formulas(goals).">>,
            <<"-((">> \o RStripDots(goal[1]) \o <<"))">> \o <<DOT>>,
            <<"end_of_list.">> >>
    ELSE <<>>

\* Mace4Wrapper._create_input_file: the text written to the artifact;
\* goal is Optional[str]: <<>> is None, <<g>> is the string g
Mace4CreateInputFile(premises, goal, domain_size) ==
    Join(Mace4Directives(domain_size)
         \o << <<"formulas(assumptions).">> >>
         \o [i \in 1..Len(premises) |-> Terminated(premises[i])]
         \o << <<"end_of_list.">>, <<>> >>
         \o Mace4GoalBlock(goal))

\* a builder call: the artifact is written and handed to the runner
Built(req, text, k, t) ==
    /\ request' = req
    /\ content' = text
    /\ kind' = k
    /\ timeout' = t
    /\ fileExists' = TRUE
    /\ pc' = "try"
    /\ UNCHANGED <<proc, result, returned, raised, unlinkCalls, unlinkOk>>
    /\ UNCHANGED <<validateVars, moreVars>>

\* handle_call_tool, name == "prove"
HandleProve ==
    /\ pc = "idle"
    /\ \E premises \in PremiseLists, conclusion \in Formulas :
        Built([tool |-> "prove", premises |-> premises,
               goal |-> <<conclusion>>, domain_size |-> <<>>],
              ProverCreateInputFile(premises, conclusion),
              "prover", DefaultTimeout)

\* handle_call_tool, name == "check-well-formed"
HandleCheckWellFormed ==
    /\ pc = "idle"
    /\ \E statements \in PremiseLists :
        Built([tool |-> "check-well-formed", premises |-> statements,
               goal |-> << <<"true">> >>, domain_size |-> <<>>],
              ProverCreateInputFile(statements, <<"true">>),
              "prover", CheckTimeout)

\* Mace4Wrapper.find_model
FindModel ==
    /\ pc = "idle"
    /\ \E premises \in PremiseLists, domain_size \in DomainSizes :
        Built([tool |-> "find_model", premises |-> premises,
               goal |-> <<>>, domain_size |-> domain_size],
              Mace4CreateInputFile(premises, <<>>, domain_size),
              "mace4", DefaultTimeout)

\* Mace4Wrapper.find_counterexample
FindCounterexample ==
    /\ pc = "idle"
    /\ \E premises \in PremiseLists, conclusion \in Formulas,
       domain_size \in DomainSizes :
        Built([tool |-> "find_counterexample", premises |-> premises,
               goal |-> <<conclusion>>, domain_size |-> domain_size],
              Mace4CreateInputFile(premises, <<conclusion>>, domain_size),
              "mace4", DefaultTimeout)

NextBuild ==
    \/ HandleProve
    \/ HandleCheckWellFormed
    \/ FindModel
    \/ FindCounterexample

SpecBuild == Init /\ [][NextBuild]_vars

-----------------------------------------------------------------------------
(* Properties of the generated input *)

\* the artifact's lines, as the solver reads them
LinesOf(text) == Split(text, NL)

RECURSIVE TrailingDots(_)
TrailingDots(f) ==
    IF EndsWithDot(f) THEN 1 + TrailingDots(SubSeq(f, 1, Len(f) - 1)) ELSE 0

ProverBuilt == pc = "try" /\ request.tool \in {"prove", "check-well-formed"}
Mace4Built == pc = "try" /\ request.tool \in {"find_model", "find_counterexample"}

\* the six fixed lines around the n formulas of the prover input
ProverLayout(lines, n) ==
    /\ Len(lines) = n + 6
    /\ lines[1] = <<"formulas(assumptions).">>
    /\ lines[n + 2] = <<"end_of_list.">>
    /\ lines[n + 3] = <<>>
    /\ lines[n + 4] = <<"formulas(goals).">>
    /\ lines[n + 6] = <<"end_of_list.">>

\* the line is the formula, unchanged if it ends in "." and with one "."
\* appended otherwise
LineOf(line, f) ==
    /\ EndsWithDot(f) => line = f
    /\ ~EndsWithDot(f) => line = f \o <<DOT>>

\* C7 as stated: header, premises in order, end, goals header, goal, end;
\* every formula line is its formula ending with exactly one trailing period.
C7_ExactlyOnePeriod ==
    ProverBuilt =>
        LET lines == LinesOf(content)
            n == Len(request.premises)
        IN  /\ ProverLayout(lines, n)
            /\ \A i \in 1..n :
                  /\ LineOf(lines[i + 1], request.premises[i])
                  /\ TrailingDots(lines[i + 1]) = 1
            /\ LineOf(lines[n + 5], request.goal[1])
            /\ TrailingDots(lines[n + 5]) = 1

\* C7 (amended): same layout and order; every formula line is its formula,
\* unchanged if it already ends in "." and with one "." appended otherwise, so
\* it ends with at least one period, with exactly one when the formula had at
\* most one, and terminating it again changes nothing.
C7_InputLayout ==
    ProverBuilt =>
        LET lines == LinesOf(content)
            n == Len(request.premises)
            ok(line, f) ==
                /\ LineOf(line, f)
                /\ TrailingDots(line) >= 1
                /\ TrailingDots(f) <= 1 => TrailingDots(line) = 1
                /\ Terminated(line) = line
        IN  /\ ProverLayout(lines, n)
            /\ \A i \in 1..n : ok(lines[i + 1], request.premises[i])
            /\ ok(lines[n + 5], request.goal[1])

\* C7 witness: one premise without and one with a trailing period, in order.
C7_Witness ==
    /\ pc = "try" /\ request.tool = "prove"
    /\ request.premises = << <<ATOM>>, <<ATOM, DOT>> >>
    /\ request.goal = << <<DOT, ATOM>> >>
    /\ LinesOf(content)[2] = <<ATOM, DOT>>
    /\ LinesOf(content)[3] = <<ATOM, DOT>>
    /\ LinesOf(content)[7] = <<DOT, ATOM, DOT>>

\* C8: find_counterexample writes a goals block of exactly one line, the
\* negated goal -((G)). with G the goal without trailing periods, never the
\* bare goal; find_model writes no goals block.
C8_NegatedGoal ==
    LET lines == LinesOf(content)
        h == FindFrom(lines, <<"formulas(goals).">>, 1)
    IN  /\ (pc = "try" /\ request.tool = "find_counterexample") =>
              LET g == request.goal[1]
              IN  /\ h > 0
                  /\ Len(lines) = h + 2
                  /\ lines[h + 1] = <<"-((">> \o RStripDots(g) \o <<"))", DOT>>
                  /\ lines[h + 1] # Terminated(g)
                  /\ lines[h + 2] = <<"end_of_list.">>
        /\ (pc = "try" /\ request.tool = "find_model") => h = 0

\* the lines that set the given Mace4 parameter
Assigns(lines, name) ==
    {i \in 1..Len(lines) : lines[i] # <<>> /\ lines[i][1] = name}

\* C9: the Mace4 input starts with the directives: the requested domain size
\* alone, or else start size 2 with end size 10; then max_seconds, equal to
\* the timeout the runner enforces, which is 60.
C9_Directives ==
    Mace4Built =>
        LET lines == LinesOf(content)
            size == Assigns(lines, "assign(domain_size, ")
            stop == Assigns(lines, "assign(end_size, ")
            secs == Assigns(lines, "assign(max_seconds, ")
        IN  /\ IF request.domain_size # <<>>
               THEN /\ size = {1} /\ stop = {} /\ secs = {2}
                    /\ lines[1][2] = ToString(request.domain_size[1])
               ELSE /\ size = {1} /\ stop = {2} /\ secs = {3}
                    /\ lines[1][2] = "2"
                    /\ lines[2][2] = "10"
            /\ \A i \in secs : lines[i][2] = ToString(timeout)
            /\ timeout = 60

\* C9 witness: a counterexample search with domain size 2 asked for.
C9_Witness ==
    /\ pc = "try" /\ request.tool = "find_counterexample"
    /\ request.domain_size = <<2>>
    /\ LinesOf(content)[1] = <<"assign(domain_size, ", "2", ").">>
    /\ LinesOf(content)[2] = <<"assign(max_seconds, ", "60", ").">>

-----------------------------------------------------------------------------
(* SyntaxValidator *)

QUANTIFIERS == {"all", "exists"}
RESERVED == QUANTIFIERS \cup {"true", "false", "end_of_list"}

\* lexemes made of \w characters only; each starts with a letter, and no
\* concatenation of them spells a reserved word
Words == RESERVED \cup {"x", "P"}

IsWord(tok) == tok \in Words

\* str.islower() / str.isupper() of the first character
StartsLower(tok) == tok \in Words \ {"P"}
StartsUpper(tok) == tok = "P"

\* len() of a lexeme, in characters
CharLen(tok) ==
    CASE tok = "all" -> 3
      [] tok = "exists" -> 6
      [] tok = "true" -> 4
      [] tok = "false" -> 5
      [] tok = "end_of_list" -> 11
      [] tok = "->" -> 2
      [] tok = "<->" -> 3
      [] OTHER -> 1

\* first index >= i that holds no whitespace (\s*)
RECURSIVE SkipSpaces(_, _)
SkipSpaces(f, i) ==
    IF i <= Len(f) /\ IsSpace(f[i]) THEN SkipSpaces(f, i + 1) ELSE i

\* first index >= i that holds no word lexeme (\w*)
RECURSIVE SkipWord(_, _)
SkipWord(f, i) ==
    IF i <= Len(f) /\ IsWord(f[i]) THEN SkipWord(f, i + 1) ELSE i

\* \b before index i, for i the start of a word lexeme
WordStartsAt(f, i) == IsWord(f[i]) /\ (i = 1 \/ ~IsWord(f[i - 1]))

\* _check_balanced_parens: the loop; pos is the character index of f[i]
RECURSIVE ParenScan(_, _, _, _, _)
ParenScan(f, i, pos, stack, errs) ==
    IF i > Len(f) THEN [stack |-> stack, errors |-> errs]
    ELSE IF f[i] = "("
    THEN ParenScan(f, i + 1, pos + 1, Append(stack, pos), errs)
    ELSE IF f[i] = ")"
    THEN IF stack = <<>>
         THEN ParenScan(f, i + 1, pos + 1, stack,
                  Append(errs, <<"Unmatched closing parenthesis at position ",
                                 ToString(pos)>>))
         ELSE ParenScan(f, i + 1, pos + 1, SubSeq(stack, 1, Len(stack) - 1), errs)
    ELSE ParenScan(f, i + 1, pos + CharLen(f[i]), stack, errs)

\* _check_balanced_parens as it would be with stack[-1] in place of stack[0]
CheckBalancedParensLastOpen(f) ==
    LET r == ParenScan(f, 1, 0, <<>>, <<>>)
    IN  r.errors \o
        (IF r.stack # <<>>
         THEN << <<"Unmatched opening parenthesis at position ",
                   ToString(r.stack[Len(r.stack)])>> >>
         ELSE <<>>)

\* _check_balanced_parens: the errors it appends
CheckBalancedParens(f) ==
    LET r == ParenScan(f, 1, 0, <<>>, <<>>)
    IN  r.errors \o
        (IF r.stack # <<>>
         THEN << <<"Unmatched opening parenthesis at position ",
                   ToString(r.stack[1])>> >>
         ELSE <<>>)

\* re.finditer(rf"\b{quantifier}\s+(\w+)", formula) from index i on:
\* the matches, each with its group 1 and its end index
RECURSIVE QuantifierMatches(_, _, _)
QuantifierMatches(f, quantifier, i) ==
    IF i > Len(f) THEN <<>>
    ELSE IF f[i] = quantifier /\ WordStartsAt(f, i)
            /\ i + 1 <= Len(f) /\ IsSpace(f[i + 1])
    THEN LET j == SkipSpaces(f, i + 1)
             k == SkipWord(f, j)
         IN  IF k > j
             THEN <<[var |-> SubSeq(f, j, k - 1), end |-> k]>>
                  \o QuantifierMatches(f, quantifier, k)
             ELSE QuantifierMatches(f, quantifier, i + 1)
    ELSE QuantifierMatches(f, quantifier, i + 1)

\* remaining = formula[pos:].lstrip();  remaining and remaining[0] == "("
QuantifierFollowed(f, end) ==
    LET remaining == LStrip(SubSeq(f, end, Len(f)))
    IN  remaining # <<>> /\ remaining[1] = "("

\* body of the `for match in matches` loop of _check_quantifiers
QuantifierIssues(f, quantifier, m) ==
    [warnings |->
        IF ~StartsLower(m.var[1])
        THEN << <<"Quantifier variable '">> \o m.var
                \o <<"' should start with lowercase">> >>
        ELSE <<>>,
     errors |->
        IF ~QuantifierFollowed(f, m.end)
        THEN << <<"Quantifier '", quantifier, " ">> \o m.var
                \o <<"' must be followed by a formula in parentheses">> >>
        ELSE <<>>]

\* concatenation of the named field over a sequence of records
RECURSIVE Gather(_, _)
Gather(rs, field) ==
    IF rs = <<>> THEN <<>> ELSE Head(rs)[field] \o Gather(Tail(rs), field)

\* _check_quantifiers; order is the iteration order of the set QUANTIFIERS
CheckQuantifiers(f, order) ==
    LET issues(q) ==
            LET ms == QuantifierMatches(f, q, 1)
            IN  [i \in 1..Len(ms) |-> QuantifierIssues(f, q, ms[i])]
        all == issues(order[1]) \o issues(order[2])
    IN  [errors |-> Gather(all, "errors"), warnings |-> Gather(all, "warnings")]

\* str.count(tok) for a one-lexeme pattern
Count(f, toks) == Cardinality({i \in 1..Len(f) : f[i] \in toks})

\* `a + b in formula` for two lexemes
Adjacent(f, a, b) == \E i \in 1..(Len(f) - 1) : f[i] = a /\ f[i + 1] = b

\* _check_operators: the warnings it appends; "<->" contains "->"
CheckOperators(f) ==
    (IF Adjacent(f, "&", "&")
     THEN << <<"Double operator '&&' found - did you mean to use it twice?">> >>
     ELSE <<>>)
    \o (IF Adjacent(f, "|", "|")
        THEN << <<"Double operator '||' found - did you mean to use it twice?">> >>
        ELSE <<>>)
    \o (IF Count(f, {"->", "<->"}) > 1 /\ Count(f, {"("}) = 0
        THEN << <<"Multiple implications without parentheses - consider adding parentheses for clarity">> >>
        ELSE <<>>)

\* re.finditer(r"\b([a-zA-Z_][a-zA-Z0-9_]*)\s*\(", formula) from index i on:
\* group 1 of each match
RECURSIVE NameMatches(_, _)
NameMatches(f, i) ==
    IF i > Len(f) THEN <<>>
    ELSE IF WordStartsAt(f, i)
    THEN LET k == SkipWord(f, i)
             m == SkipSpaces(f, k)
         IN  IF m <= Len(f) /\ f[m] = "("
             THEN <<SubSeq(f, i, k - 1)>> \o NameMatches(f, m + 1)
             ELSE NameMatches(f, k)
    ELSE NameMatches(f, i + 1)

\* `name in words` for a name spelled as a run of lexemes
NameIn(name, words) == Len(name) = 1 /\ name[1] \in words

\* body of the `for match in matches` loop of _check_naming
NamingIssues(name) ==
    IF NameIn(name, QUANTIFIERS)
    THEN [warnings |-> <<>>, errors |-> <<>>]
    ELSE [warnings |->
            IF StartsUpper(name[1])
            THEN << <<"Predicate/function '">> \o name
                    \o <<"' starts with uppercase - consider using lowercase for consistency">> >>
            ELSE <<>>,
          errors |->
            IF NameIn(name, RESERVED)
            THEN << <<"'">> \o name
                    \o <<"' is a reserved keyword and cannot be used as a predicate/function">> >>
            ELSE <<>>]

\* _check_naming
CheckNaming(f) ==
    LET names == NameMatches(f, 1)
        all == [i \in 1..Len(names) |-> NamingIssues(names[i])]
    IN  [errors |-> Gather(all, "errors"), warnings |-> Gather(all, "warnings")]

\* re.search(rf"\w{op}\w", formula)
Unspaced(f, op) ==
    \E i \in 2..(Len(f) - 1) : f[i] = op /\ IsWord(f[i - 1]) /\ IsWord(f[i + 1])

\* _check_common_mistakes
CheckCommonMistakes(f) ==
    [warnings |->
        (IF Unspaced(f, "->")
         THEN << <<"Consider adding spaces around '->' for readability">> >>
         ELSE <<>>)
        \o (IF Unspaced(f, "<->")
            THEN << <<"Consider adding spaces around '<->' for readability">> >>
            ELSE <<>>)
        \o (IF Count(f, {"\"", "'"}) > 0
            THEN << <<"Strings in quotes are not standard in first-order logic - use predicates or constants instead">> >>
            ELSE <<>>),
     errors |->
        IF Adjacent(f, "(", ")")
        THEN << <<"Empty parentheses found - predicates and functions must have arguments">> >>
        ELSE <<>>]

\* SyntaxValidator.validate: what the five checks append to self.errors and
\* self.warnings, in the order of the appends
Validate(f, quantifiers) ==
    LET formula_clean == RStripDots(f)
        parens == CheckBalancedParens(formula_clean)
        quants == CheckQuantifiers(formula_clean, quantifiers)
        ops == CheckOperators(formula_clean)
        naming == CheckNaming(formula_clean)
        mistakes == CheckCommonMistakes(formula_clean)
    IN  [errors |-> parens \o quants.errors \o naming.errors \o mistakes.errors,
         warnings |-> quants.warnings \o ops \o naming.warnings \o mistakes.warnings]

\* the phrases formulas are put together from
Phrases ==
    { <<"all", " ", "x", " ">>, <<"exists", " ", "x", " ">>,
      <<"(", "x", ")">>, <<"(">>, <<")">>, <<"x">>, <<" ">>,
      <<"true">>, <<"->">>, <<"&">>, <<".">>,
      <<"all">>, <<"exists">>, <<"false">>, <<"end_of_list">> }

RECURSIVE Flatten(_)
Flatten(ss) == IF ss = <<>> THEN <<>> ELSE Head(ss) \o Flatten(Tail(ss))

ValidatedFormulas == {Flatten(ps) : ps \in SeqsUpTo(Phrases, MaxPhrases)}

\* the orders in which `for quantifier in self.QUANTIFIERS` can visit the set
QuantifierOrders == {<<"all", "exists">>, <<"exists", "all">>}

\* SyntaxValidator.__init__: two new empty lists, bound to self.errors and
\* self.warnings; m is the heap before
ValidatorInit(h) ==
    [heap |-> h \o << <<>>, <<>> >>,
     self |-> [errors |-> Len(h) + 1, warnings |-> Len(h) + 2]]

\* the reset of validate as it would be with self.errors.clear() and
\* self.warnings.clear(): the lists are emptied in place
ResetListsInPlace(m) ==
    [heap |-> [m.heap EXCEPT ![m.self.errors] = <<>>, ![m.self.warnings] = <<>>],
     self |-> m.self]

\* self.errors = []; self.warnings = [] at the top of validate: the
\* attributes are bound to two new lists, the old lists stay as they are
ResetLists(m) == ValidatorInit(m.heap)

\* the end of validate on the instance r, once the checks have appended v to
\* its lists: the heap and the instance after the call, and the tuple
\* returned, its lists given by id
ValidateReturn(r, v) ==
    LET h == [r.heap EXCEPT ![r.self.errors] = @ \o v.errors,
                            ![r.self.warnings] = @ \o v.warnings]
    IN  [heap |-> h, self |-> r.self,
         returned |-> [is_valid |-> Len(h[r.self.errors]) = 0,
                       errors |-> r.self.errors, warnings |-> r.self.warnings]]

\* validate(formula) on the instance m = [heap, self]
ValidateOn(m, f, quantifiers) ==
    ValidateReturn(ResetLists(m), Validate(f, quantifiers))

\* the loop of validate_formulas over the formulas fs, on the instance m
RECURSIVE ValidateFormulasLoop(_, _, _, _)
RECURSIVE ValidateFormulasStep(_, _, _, _)
ValidateFormulasLoop(m, fs, res, quantifiers) ==
    IF fs = <<>> THEN [heap |-> m.heap, self |-> m.self, results |-> res]
    ELSE ValidateFormulasStep(ValidateOn(m, Head(fs), quantifiers),
                              fs, res, quantifiers)

\* body of the loop of validate_formulas, s being what validate(formula) left
\* and returned, and the rest of the loop after it
ValidateFormulasStep(s, fs, res, quantifiers) ==
    LET formula_result ==
            [formula |-> Head(fs), valid |-> s.returned.is_valid,
             errors |-> s.returned.errors, warnings |-> s.returned.warnings]
    IN  ValidateFormulasLoop([heap |-> s.heap, self |-> s.self], Tail(fs),
            [valid |-> res.valid /\ s.returned.is_valid,
             formula_results |-> Append(res.formula_results, formula_result)],
            quantifiers)

\* the formulas validate_formulas is called with
BatchFormulas ==
    { <<"(">>, <<"(", "x", ")">>, <<"x", "->", "x">>, <<"x", "->", "x", ")">>,
      <<"exists", " ", "x", " ">> }
FormulaLists == SeqsUpTo(BatchFormulas, MaxBatch)

\* the class body of SyntaxValidator runs: the set QUANTIFIERS is built, and
\* with it the order in which this process iterates over it
LoadValidator ==
    /\ pc = "idle"
    /\ iterOrder' \in QuantifierOrders
    /\ pc' = "loaded"
    /\ UNCHANGED <<formula, validator, report, heap, results>>
    /\ UNCHANGED <<runVars, buildVars, moreVars>>

\* SyntaxValidator().validate(formula)
ValidateCall ==
    /\ pc = "loaded"
    /\ \E f \in ValidatedFormulas :
          \E s \in {ValidateOn(ValidatorInit(heap), f, iterOrder)} :
              /\ formula' = f
              /\ heap' = s.heap
              /\ validator' = s.self
              /\ report' = [is_valid |-> s.returned.is_valid,
                            errors |-> s.heap[s.returned.errors],
                            warnings |-> s.heap[s.returned.warnings]]
    /\ pc' = "validated"
    /\ UNCHANGED <<iterOrder, results>>
    /\ UNCHANGED <<runVars, buildVars, moreVars>>

\* validate_formulas(formulas)
ValidateFormulas ==
    /\ pc = "loaded"
    /\ \E fs \in FormulaLists :
          \E s \in {ValidateFormulasLoop(ValidatorInit(heap), fs,
                       [valid |-> TRUE, formula_results |-> <<>>], iterOrder)} :
              /\ heap' = s.heap
              /\ validator' = s.self
              /\ results' = s.results
    /\ pc' = "validated_all"
    /\ UNCHANGED <<formula, report, iterOrder>>
    /\ UNCHANGED <<runVars, buildVars, moreVars>>

NextValidate == LoadValidator \/ ValidateCall \/ ValidateFormulas

SpecValidate == Init /\ [][NextValidate]_vars

-----------------------------------------------------------------------------
(* Properties of the validator *)

\* parentheses balance: the depth never drops below zero and ends at zero
RECURSIVE Depth(_, _)
Depth(f, n) ==
    IF n = 0 THEN 0
    ELSE Depth(f, n - 1)
         + (IF f[n] = "(" THEN 1 ELSE IF f[n] = ")" THEN 0 - 1 ELSE 0)

Balanced(f) == Depth(f, Len(f)) = 0 /\ \A n \in 1..Len(f) : Depth(f, n) >= 0

\* a quantifier with its variable starts at index i
QuantifierAt(f, i) ==
    /\ f[i] \in QUANTIFIERS /\ WordStartsAt(f, i)
    /\ i + 1 <= Len(f) /\ IsSpace(f[i + 1])
    /\ SkipWord(f, SkipSpaces(f, i + 1)) > SkipSpaces(f, i + 1)

\* the quantifier prefix that starts at index i ends in a parenthesised scope:
\* after the variable comes "(" or the next quantifier of the chain
RECURSIVE ScopedAt(_, _)
ScopedAt(f, i) ==
    LET j == SkipSpaces(f, SkipWord(f, SkipSpaces(f, i + 1)))
    IN  /\ j <= Len(f)
        /\ \/ f[j] = "("
           \/ QuantifierAt(f, j) /\ ScopedAt(f, j)

WellScoped(f) == \A i \in 1..Len(f) : QuantifierAt(f, i) => ScopedAt(f, i)

\* the formula trips neither the reserved-name rule nor the "()" rule
PlainNames(f) ==
    /\ ~Adjacent(f, "(", ")")
    /\ \A i \in 1..Len(f) :
          (f[i] \in RESERVED \ QUANTIFIERS /\ WordStartsAt(f, i)) =>
              ~(SkipSpaces(f, i + 1) <= Len(f) /\ f[SkipSpaces(f, i + 1)] = "(")

\* C10: a formula with balanced parentheses whose quantifier prefixes, single
\* or chained, all end in a parenthesised scope is reported valid with no
\* errors (stated for formulas the reserved-name and "()" rules leave alone).
C10_WellFormedAccepted ==
    LET f == RStripDots(formula)
    IN  (pc = "validated" /\ Balanced(f) /\ WellScoped(f) /\ PlainNames(f)) =>
            (report.is_valid /\ report.errors = <<>>)

\* character index of the lexeme f[i]
RECURSIVE CharPos(_, _)
CharPos(f, i) == IF i = 1 THEN 0 ELSE CharPos(f, i - 1) + CharLen(f[i - 1])

\* the reference scan: the number of "(" open after f[1..n], where a ")" met
\* at depth zero closes nothing
RECURSIVE OpenDepth(_, _)
OpenDepth(f, n) ==
    IF n = 0 THEN 0
    ELSE LET before == OpenDepth(f, n - 1)
         IN  IF f[n] = "(" THEN before + 1
             ELSE IF f[n] = ")" /\ before > 0 THEN before - 1
             ELSE before

\* f[i] is a ")" met while no "(" is open
StrayClose(f, i) == f[i] = ")" /\ OpenDepth(f, i - 1) = 0

\* f[i] is a "(" that no later ")" closes
StrayOpen(f, i) ==
    f[i] = "(" /\ \A j \in i..Len(f) : OpenDepth(f, j) >= OpenDepth(f, i)

\* the errors of the reference scan for f[i..], in the order it meets them
RECURSIVE StrayCloseErrors(_, _)
StrayCloseErrors(f, i) ==
    IF i > Len(f) THEN <<>>
    ELSE (IF StrayClose(f, i)
          THEN << <<"Unmatched closing parenthesis at position ",
                    ToString(CharPos(f, i))>> >>
          ELSE <<>>) \o StrayCloseErrors(f, i + 1)

ReferenceParenErrors(f) ==
    StrayCloseErrors(f, 1) \o
    (IF \E i \in 1..Len(f) : StrayOpen(f, i)
     THEN LET first == CHOOSE i \in 1..Len(f) :
                          StrayOpen(f, i) /\ \A j \in 1..(i - 1) : ~StrayOpen(f, j)
          IN  << <<"Unmatched opening parenthesis at position ",
                    ToString(CharPos(f, first))>> >>
     ELSE <<>>)

IsParenError(e) ==
    e[1] \in {"Unmatched closing parenthesis at position ",
              "Unmatched opening parenthesis at position "}

\* C11: the parenthesis errors a validate call reports are those of the
\* reference depth-counting scan (one per ")" met at depth zero, with its
\* position, then one for the leftmost "(" left open), and a formula gets a
\* parenthesis error together with is_valid = false exactly when its
\* parentheses are unbalanced.
C11_ParenCheckAgrees ==
    pc = "validated" =>
        LET parenErrors == SelectSeq(report.errors, IsParenError)
        IN  /\ parenErrors = ReferenceParenErrors(formula)
            /\ (parenErrors # <<>> /\ ~report.is_valid) <=> ~Balanced(formula)

\* a call on a formula with a stray ")" and two "(" left open, the first of
\* them not at the start of the text
C11_Witness ==
    /\ pc = "validated"
    /\ \E i \in 1..Len(formula) : StrayClose(formula, i)
    /\ Cardinality({i \in 1..Len(formula) : StrayOpen(formula, i)}) >= 2
    /\ \E e \in Range(report.errors) :
          e[1] = "Unmatched opening parenthesis at position " /\ e[2] # "0"

\* the reserved word f[i] is an identifier of its own, immediately followed
\* by "("
ReservedApplied(f, i) ==
    /\ f[i] \in RESERVED
    /\ WordStartsAt(f, i)
    /\ i + 1 <= Len(f) /\ f[i + 1] = "("

\* C12: a formula in which one of the five reserved words is an identifier
\* immediately followed by "(" gets the reserved-keyword error for that word
\* and is reported invalid.
C12_ReservedRejected ==
    pc = "validated" =>
        \A i \in 1..Len(formula) :
            ReservedApplied(formula, i) =>
                /\ <<"'", formula[i],
                      "' is a reserved keyword and cannot be used as a predicate/function">>
                       \in Range(report.errors)
                /\ ~report.is_valid

-----------------------------------------------------------------------------
(* Construction of the wrappers: LogicEngine.__init__, Mace4Wrapper.__init__,
   main *)

\* the files a binaries directory can hold
BinNames == {"prover9.exe", "prover9", "mace4.exe", "mace4", "ladr.dll"}
BinDirs == SUBSET BinNames

\* the tools handle_call_tool is asked for
ToolNames == {"prove", "check-well-formed", "other"}

\* LogicEngine.__init__: the instance, or <<>> when it raises
\* FileNotFoundError
LogicEngineInit(dir) ==
    IF "prover9.exe" \in dir THEN <<[prover_exe |-> "prover9.exe"]>> ELSE NoInstance

\* Mace4Wrapper.__init__: the instance, or <<>> when it raises
\* FileNotFoundError
Mace4WrapperInit(dir) ==
    IF "mace4.exe" \in dir THEN <<[mace4_exe |-> "mace4.exe"]>>
    ELSE IF "mace4" \in dir THEN <<[mace4_exe |-> "mace4"]>>
    ELSE NoInstance

\* main(prover_path): constructs the engine, then registers the handlers and
\* serves; an exception of the constructor ends main
Main ==
    /\ pc = "idle"
    /\ \E dir \in BinDirs :
          /\ binDir' = dir
          /\ engine' = LogicEngineInit(dir)
          /\ IF LogicEngineInit(dir) # NoInstance
             THEN pc' = "serving" /\ startup' = [startup EXCEPT !.outcome = "ok"]
             ELSE pc' = "exited"
                  /\ startup' = [startup EXCEPT !.outcome = "FileNotFoundError"]
    /\ UNCHANGED <<wrapper, runVars, buildVars, validateVars, poolVars, composeVars, handlerVars>>

\* Mace4Wrapper(mace4_path), as a caller of the library makes it
NewMace4Wrapper ==
    /\ pc = "idle"
    /\ \E dir \in BinDirs :
          /\ binDir' = dir
          /\ wrapper' = Mace4WrapperInit(dir)
          /\ IF Mace4WrapperInit(dir) # NoInstance
             THEN pc' = "constructed" /\ startup' = [startup EXCEPT !.outcome = "ok"]
             ELSE pc' = "failed"
                  /\ startup' = [startup EXCEPT !.outcome = "FileNotFoundError"]
    /\ UNCHANGED <<engine, runVars, buildVars, validateVars, poolVars, composeVars, handlerVars>>

\* handle_call_tool: a tool call reaches the handler of a server that started;
\* it uses the engine main constructed
HandleCallTool ==
    /\ pc = "serving"
    /\ startup.served = <<>>
    /\ \E name \in ToolNames :
          startup' = [startup EXCEPT !.served = <<[tool |-> name, engine |-> engine]>>]
    /\ UNCHANGED <<pc, binDir, engine, wrapper, runVars, buildVars, validateVars, poolVars, composeVars, handlerVars>>

NextStartup == Main \/ NewMace4Wrapper \/ HandleCallTool

SpecStartup == Init /\ [][NextStartup]_vars

\* C13: a wrapper constructed for a binaries directory uses the .exe name
\* when that file exists and otherwise the unsuffixed name; construction fails
\* with the not-found error exactly when neither file exists; a tool call is
\* only ever served by an engine whose construction succeeded. Stated for
\* LogicEngine and for Mace4Wrapper.
C13_ProbeWithFallback ==
    /\ pc \in {"serving", "exited"} =>
          /\ (startup.outcome = "FileNotFoundError")
                <=> ({"prover9.exe", "prover9"} \cap binDir = {})
          /\ engine # NoInstance =>
                engine[1].prover_exe =
                    (IF "prover9.exe" \in binDir THEN "prover9.exe" ELSE "prover9")
    /\ pc \in {"constructed", "failed"} =>
          /\ (startup.outcome = "FileNotFoundError")
                <=> ({"mace4.exe", "mace4"} \cap binDir = {})
          /\ wrapper # NoInstance =>
                wrapper[1].mace4_exe =
                    (IF "mace4.exe" \in binDir THEN "mace4.exe" ELSE "mace4")
    /\ \A i \in 1..Len(startup.served) :
          startup.served[i].engine # NoInstance /\ startup.outcome = "ok"

-----------------------------------------------------------------------------
(* Mace4Wrapper._parse_model and the model_found outcome of _run_mace4 *)

EOL == "end_of_list"
FN == "function("
RL == "relation("

\* the lexemes int() accepts, and their values
Digits == {"2", "3"}
DigitValue(tok) == IF tok = "2" THEN 2 ELSE 3

\* the lexemes after the last whitespace of r
\* line.split()[-1] for a line that holds a non-space lexeme: the lexemes
\* after the last whitespace of the right-stripped line. (A run that holds
\* the lexeme "DOMAIN SIZE" is cut shorter by Python, at the space inside the
\* lexeme; neither the run nor its tail is an integer.)
RECURSIVE TokenTail(_)
TokenTail(r) ==
    IF r = <<>> \/ IsSpace(r[Len(r)]) THEN <<>>
    ELSE TokenTail(SubSeq(r, 1, Len(r) - 1)) \o <<r[Len(r)]>>

LastToken(line) == TokenTail(RStrip(line))

\* decimal value of a run of digit lexemes
RECURSIVE Decimal(_)
Decimal(token) ==
    IF token = <<>> THEN 0
    ELSE 10 * Decimal(SubSeq(token, 1, Len(token) - 1)) + DigitValue(token[Len(token)])

\* int(token): <<n>>, or <<>> when int() raises ValueError
IntOf(token) ==
    IF token # <<>> /\ \A i \in 1..Len(token) : token[i] \in Digits
    THEN <<Decimal(token)>>
    ELSE <<>>

\* _parse_model as it would be with a `break` after the first "DOMAIN SIZE" line
ParseDomainSizeFirstLine(output) ==
    LET lines == Split(output, NL)
        marked == {i \in 1..Len(lines) : DS \in Range(lines[i])}
    IN  IF marked = {} THEN <<>>
        ELSE IntOf(LastToken(lines[CHOOSE i \in marked : \A j \in marked : i <= j]))

\* the `for line in output.split("\n")` loop of _parse_model: size is
\* model["domain_size"], <<>> for None
RECURSIVE DomainSizeScan(_, _)
DomainSizeScan(lines, size) ==
    IF lines = <<>> THEN size
    ELSE LET line == Head(lines)
         IN  DomainSizeScan(Tail(lines),
                 IF DS \in Range(line) /\ IntOf(LastToken(line)) # <<>>
                 THEN IntOf(LastToken(line))
                 ELSE size)

\* _parse_model: model["domain_size"]
ParseDomainSize(output) == DomainSizeScan(Split(output, NL), <<>>)

\* the `for line in interpretation.split("\n")` loop of _parse_model: what it
\* appends to raw_interpretation
RECURSIVE InterpretationLines(_)
InterpretationLines(lines) ==
    IF lines = <<>> THEN <<>>
    ELSE LET line == Strip(Head(lines))
         IN  (IF line # <<>> /\ line[1] \in {FN, RL} THEN <<NL>> \o line ELSE <<>>)
             \o InterpretationLines(Tail(lines))

\* _parse_model: model["raw_interpretation"]
ParseInterpretation(output) ==
    IF IP \notin Range(output) THEN <<>>
    ELSE LET start == FindFrom(output, IP, 1)
             end == FindFrom(output, EOL, start)
         IN  IF end > start
             THEN LET interpretation == SubSeq(output, start, end)
                  IN  Strip(interpretation)
                      \o InterpretationLines(Split(interpretation, NL))
             ELSE <<>>

\* _parse_model; <<>> stands for None and for the empty dict
ParseModel(output) ==
    [domain_size |-> ParseDomainSize(output),
     predicates |-> <<>>, functions |-> <<>>, constants |-> <<>>,
     raw_interpretation |-> ParseInterpretation(output)]

\* the if/elif chain of _run_mace4 with the "model" entry of its first branch
Mace4Outcome(stdout, stderr) ==
    LET c == Mace4Classify(stdout, stderr)
    IN  IF c.result = "model_found"
        THEN [result |-> "model_found", model |-> ParseModel(stdout),
              complete_output |-> stdout]
        ELSE c

\* the phrases Mace4 output is put together from
ModelPhrases ==
    { <<DS, " ", "2", NL>>, <<DS, " ", "3", NL>>, <<DS, " ", TXT, NL>>,
      <<IP, TXT, NL>>, <<" ", FN, TXT, NL>>, <<EOL>>, <<TXT>> }

ModelOutputs == {Flatten(ps) : ps \in SeqsUpTo(ModelPhrases, MaxModelPhrases)}

\* _run_mace4 when Mace4 exits: the try block up to its return
RunMace4Exited ==
    /\ pc = "idle"
    /\ \E out \in ModelOutputs, err \in {<<>>, <<FE>>} :
          /\ proc' = [event |-> "exit", stdout |-> out, stderr |-> err]
          /\ result' = Mace4Outcome(out, err)
    /\ kind' = "mace4"
    /\ pc' = "parsed"
    /\ UNCHANGED <<timeout, fileExists, returned, raised, unlinkCalls, unlinkOk>>
    /\ UNCHANGED <<buildVars, validateVars, moreVars>>

NextModel == RunMace4Exited

SpecModel == Init /\ [][NextModel]_vars

ModelFound == pc = "parsed" /\ result.result = "model_found"

\* s begins with p
StartsWith(s, p) == Len(s) >= Len(p) /\ SubSeq(s, 1, Len(p)) = p

\* C14: the model of a model_found outcome has a non-empty raw_interpretation,
\* and it begins with the text from the first "interpretation(" through the
\* following "end_of_list".
C14_RawInterpretation ==
    ModelFound =>
        LET out == proc.stdout
            raw == result.model.raw_interpretation
            start == FindFrom(out, IP, 1)
            end == FindFrom(out, EOL, start)
        IN  /\ raw # <<>>
            /\ end # 0 => StartsWith(raw, SubSeq(out, start, end))

\* the lines of Mace4's output that hold "DOMAIN SIZE"
SizeLines(out) ==
    LET lines == Split(out, NL)
    IN  {i \in 1..Len(lines) : DS \in Range(lines[i])}

\* those of them whose last token is an integer
SizedLines(out) ==
    {i \in SizeLines(out) : IntOf(LastToken(Split(out, NL)[i])) # <<>>}

Classified ==
    (pc = "parsed") =>
        ((result.result = "model_found")
            <=> (DS \in Range(proc.stdout) /\ IP \in Range(proc.stdout)))

\* C15 as stated: domain_size is the last token of the first "DOMAIN SIZE"
\* line as an integer, None when that token is no integer; the outcome stays
\* model_found either way.
C15_FirstSizeLine ==
    /\ Classified
    /\ ModelFound =>
          LET lines == Split(proc.stdout, NL)
              first == CHOOSE i \in SizeLines(proc.stdout) :
                          \A j \in SizeLines(proc.stdout) : i <= j
          IN  result.model.domain_size = IntOf(LastToken(lines[first]))

\* C15, amended: domain_size is the integer that ends the last "DOMAIN SIZE"
\* line ending in an integer, None when no "DOMAIN SIZE" line ends in one;
\* the outcome stays model_found either way.
C15_LastSizedLine ==
    /\ Classified
    /\ ModelFound =>
          LET lines == Split(proc.stdout, NL)
              sized == SizedLines(proc.stdout)
          IN  result.model.domain_size =
                IF sized = {} THEN <<>>
                ELSE IntOf(LastToken(lines[CHOOSE i \in sized : \A j \in sized : j <= i]))

\* a model_found outcome for an output with two sized "DOMAIN SIZE" lines of
\* different sizes
C15_Witness ==
    /\ ModelFound
    /\ \E i, j \in SizedLines(proc.stdout) :
          /\ i < j
          /\ IntOf(LastToken(Split(proc.stdout, NL)[i])) = <<2>>
          /\ result.model.domain_size = <<3>>

-----------------------------------------------------------------------------
(* Tool invocations running at once: handle_call_tool, find_model,
   find_counterexample, each with _create_input_file, the solver run and the
   cleanup in the finally block *)

PoolTools == {"prove", "check-well-formed", "find_model", "find_counterexample"}

\* tempfile.mkstemp as it would be without O_EXCL: any name
MkstempAnyName(dir) == TmpNames

\* tempfile.mkstemp: a name no file of the area has (the file is created
\* with O_CREAT | O_EXCL)
Mkstemp(dir) == {n \in TmpNames : ~dir[n].exists}

\* what the solver makes of the input it read from its -f argument; 0 stands
\* for a file that was not there
SolverOutcome(tool, input) == [result |-> "ran", tool |-> tool, input |-> input]

\* _create_input_file of invocation i: the text of request i goes into a new
\* file
CreateInputFile(i) ==
    /\ pc = "idle"
    /\ invocations[i].pc = "new"
    /\ \E tool \in PoolTools, path \in Mkstemp(tmpDir) :
          /\ tmpDir' = [tmpDir EXCEPT ![path] =
                            [exists |-> TRUE, content |-> i, creator |-> i]]
          /\ invocations' = [invocations EXCEPT ![i] =
                            [@ EXCEPT !.pc = "created", !.tool = tool, !.path = path]]
    /\ UNCHANGED <<pc, runVars, buildVars, validateVars, startVars, composeVars, handlerVars>>

\* subprocess.run([exe, "-f", str(input_path)], ...) of invocation i
RunSolver(i) ==
    /\ pc = "idle"
    /\ invocations[i].pc = "created"
    /\ LET file == tmpDir[invocations[i].path]
           input == IF file.exists THEN file.content ELSE 0
       IN  invocations' = [invocations EXCEPT ![i] =
               [@ EXCEPT !.pc = "ran", !.read = input,
                         !.outcome = SolverOutcome(invocations[i].tool, input)]]
    /\ UNCHANGED <<pc, tmpDir, runVars, buildVars, validateVars, startVars, composeVars, handlerVars>>

\* finally: input_path.unlink() of invocation i, then the return
Cleanup(i) ==
    /\ pc = "idle"
    /\ invocations[i].pc = "ran"
    /\ LET path == invocations[i].path
       IN  \E outcome \in UnlinkOutcomes(tmpDir[path].exists) :
              IF outcome = "ok"
              THEN /\ tmpDir' = [tmpDir EXCEPT ![path] = NoFile]
                   /\ invocations' = [invocations EXCEPT ![i] =
                          [@ EXCEPT !.pc = "done", !.removed = tmpDir[path].creator]]
              ELSE /\ tmpDir' = tmpDir
                   /\ invocations' = [invocations EXCEPT ![i] = [@ EXCEPT !.pc = "done"]]
    /\ UNCHANGED <<pc, runVars, buildVars, validateVars, startVars, composeVars, handlerVars>>

NextPool == \E i \in Invocations : CreateInputFile(i) \/ RunSolver(i) \/ Cleanup(i)

SpecPool == Init /\ [][NextPool]_vars

\* invocation i has created its artifact and not yet cleaned up
Live(i) == invocations[i].pc \in {"created", "ran"}

\* C16: whatever the interleaving, a live invocation's artifact exists, is
\* the one it created and has a path no other live invocation has; the solver
\* of an invocation read the text that invocation wrote; the file an
\* invocation removed is the one it created; its outcome is the solver's
\* answer to its own tool and its own input.
C16_Isolation ==
    \A i \in Invocations :
        LET inv == invocations[i]
        IN  /\ Live(i) =>
                  /\ tmpDir[inv.path].exists /\ tmpDir[inv.path].creator = i
                  /\ \A j \in Invocations \ {i} :
                        Live(j) => invocations[j].path # inv.path
            /\ inv.pc \in {"ran", "done"} =>
                  /\ inv.read = i
                  /\ inv.outcome = SolverOutcome(inv.tool, i)
            /\ inv.pc = "done" => inv.removed \in {0, i}

\* two invocations live at once, a prove call whose solver has run and a
\* find_model call that has just created its artifact
C16_Witness ==
    \E i, j \in Invocations :
        /\ i # j
        /\ invocations[i].pc = "ran" /\ invocations[j].pc = "created"
        /\ invocations[i].tool = "prove" /\ invocations[j].tool = "find_model"

-----------------------------------------------------------------------------
(* Properties of validate across calls *)

\* what validate returns for f on an instance made for that call alone
FreshReport(f) ==
    LET s == ValidateOn(ValidatorInit(<<>>), f, iterOrder)
    IN  [is_valid |-> s.returned.is_valid,
         errors |-> s.heap[s.returned.errors],
         warnings |-> s.heap[s.returned.warnings]]

\* C17: after validate_formulas has validated its formulas on one instance,
\* every formula's result, its lists read now, is what a fresh validator
\* returns for that formula alone (so no later call changed the lists returned
\* earlier, and no earlier call left anything in the later ones); valid is
\* true exactly when the errors are empty, whatever the warnings; the overall
\* valid is the conjunction.
C17_Stateless ==
    /\ pc = "validated" => (report.is_valid <=> report.errors = <<>>)
    /\ pc = "validated_all" =>
          /\ \A k \in 1..Len(results.formula_results) :
                LET r == results.formula_results[k]
                IN  /\ [is_valid |-> r.valid, errors |-> heap[r.errors],
                         warnings |-> heap[r.warnings]] = FreshReport(r.formula)
                    /\ r.valid <=> heap[r.errors] = <<>>
          /\ results.valid <=>
                \A k \in 1..Len(results.formula_results) :
                    results.formula_results[k].valid

\* validate_formulas on a formula with errors followed by a formula with
\* warnings only
C17_Witness ==
    /\ pc = "validated_all"
    /\ Len(results.formula_results) >= 2
    /\ LET r1 == results.formula_results[1]
           r2 == results.formula_results[2]
       IN  /\ ~r1.valid /\ heap[r1.errors] # <<>>
           /\ r2.valid /\ heap[r2.warnings] # <<>>
    /\ ~results.valid

-----------------------------------------------------------------------------
(* CategoricalHelpers.verify_commutativity and _compose_path_helper *)

\* temp_name as it would be without the result_name prefix
TempNameShared(result_name, i, n) ==
    IF i < n - 1 THEN <<"temp_", ToString(i)>> ELSE <<result_name>>

\* temp_name in round i (Python's i, from 1) of the loop over a path of n
\* morphisms
TempName(result_name, i, n) ==
    IF i < n - 1 THEN <<result_name, "_temp_", ToString(i)>> ELSE <<result_name>>

\* the loop of _compose_path_helper from round i on
RECURSIVE ComposeLoop(_, _, _, _, _)
ComposeLoop(path, result_name, i, current, premises) ==
    IF i > Len(path) - 1 THEN [premises |-> premises, result |-> current]
    ELSE LET temp_name == TempName(result_name, i, Len(path))
         IN  ComposeLoop(path, result_name, i + 1, temp_name,
                 Append(premises,
                        <<"compose(", path[i + 1], ", ">> \o current
                        \o <<", ">> \o temp_name \o <<")">>))

\* _compose_path_helper, for a path that is not empty
ComposePathHelper(path, result_name) ==
    IF Len(path) = 1 THEN [premises |-> <<>>, result |-> <<path[1]>>]
    ELSE ComposeLoop(path, result_name, 1, <<path[1]>>, <<>>)

\* the `for i, morph in enumerate(path)` loops of verify_commutativity, from
\* index i (1-based) on
RECURSIVE DeclarePath(_, _, _, _)
DeclarePath(path, i, object_start, object_end) ==
    IF i > Len(path) THEN <<>>
    ELSE << <<"morphism(", path[i], ")">> >>
         \o (IF i = 1
             THEN << <<"source(", path[i], ", ", object_start, ")">> >>
             ELSE <<>>)
         \o (IF i = Len(path)
             THEN << <<"target(", path[i], ", ", object_end, ")">> >>
             ELSE <<>>)
         \o DeclarePath(path, i + 1, object_start, object_end)

\* CategoricalHelpers.verify_commutativity
VerifyCommutativityResult(path_a, path_b, object_start, object_end) ==
    LET comp_a == ComposePathHelper(path_a, "comp_a")
        comp_b == ComposePathHelper(path_b, "comp_b")
    IN  [premises |-> DeclarePath(path_a, 1, object_start, object_end)
                      \o DeclarePath(path_b, 1, object_start, object_end)
                      \o comp_a.premises \o comp_b.premises,
         conclusion |-> comp_a.result \o <<" = ">> \o comp_b.result]

MorphismNames == {"f", "g"}
MorphismPaths == SeqsUpTo(MorphismNames, MaxPath) \ {<<>>}

\* verify_commutativity(path_a, path_b, "A", "B")
VerifyCommutativity ==
    /\ pc = "idle"
    /\ \E a \in MorphismPaths, b \in MorphismPaths :
          /\ paths' = [path_a |-> a, path_b |-> b]
          /\ axioms' = VerifyCommutativityResult(a, b, "A", "B")
    /\ pc' = "composed"
    /\ UNCHANGED <<runVars, buildVars, validateVars, startVars, poolVars, handlerVars>>

NextCompose == VerifyCommutativity

SpecCompose == Init /\ [][NextCompose]_vars

\* the arguments of a premise name(arg, arg, ...)
PremiseArgs(premise) == Split(SubSeq(premise, 2, Len(premise) - 1), ", ")

IsCompose(premise) == premise[1] = "compose("

\* the compose premises among the returned premises, in order
ComposePremises == SelectSeq(axioms.premises, IsCompose)

\* the names verify_commutativity gives to the compositions of a path of n
\* morphisms, in order: side_temp_1 .. side_temp_(n-2), side
IntroducedNames(side, n) ==
    [k \in 1..(n - 1) |->
        IF k < n - 1 THEN <<side, "_temp_", ToString(k)>> ELSE <<side>>]

\* cs is the chain that composes path: one premise per morphism after the
\* first, each composing the next morphism with the result before it, the
\* results named by names; the last result is side
Chained(cs, path, names, side) ==
    /\ Len(cs) = Len(path) - 1
    /\ \A k \in 1..Len(cs) :
          PremiseArgs(cs[k]) =
              << <<path[k + 1]>>,
                 IF k = 1 THEN <<path[1]>> ELSE names[k - 1],
                 names[k] >>
    /\ side = IF Len(path) = 1 THEN <<path[1]>> ELSE names[Len(path) - 1]

\* C18: the compose premises verify_commutativity returns are the chain of
\* path A followed by the chain of path B, n-1 premises for a path of n
\* morphisms, with results named comp_a_temp_i / comp_a and comp_b_temp_i /
\* comp_b; these names are pairwise distinct within a path and no name of
\* path A is a name of path B; the conclusion equates the last result of each
\* chain, or the morphism itself for a path of one.
C18_ComposeNames ==
    pc = "composed" =>
        LET a == paths.path_a
            b == paths.path_b
            namesA == IntroducedNames("comp_a", Len(a))
            namesB == IntroducedNames("comp_b", Len(b))
            cs == ComposePremises
            sides == Split(axioms.conclusion, " = ")
        IN  /\ Len(cs) = (Len(a) - 1) + (Len(b) - 1)
            /\ Len(sides) = 2
            /\ Chained(SubSeq(cs, 1, Len(a) - 1), a, namesA, sides[1])
            /\ Chained(SubSeq(cs, Len(a), Len(cs)), b, namesB, sides[2])
            /\ Cardinality(Range(namesA)) = Len(a) - 1
            /\ Cardinality(Range(namesB)) = Len(b) - 1
            /\ Range(namesA) \cap Range(namesB) = {}
            /\ Len(axioms.premises) = (Len(a) + 2) + (Len(b) + 2) + Len(cs)

\* two paths of equal length above two have been composed
C18_Witness ==
    /\ pc = "composed"
    /\ Len(paths.path_a) = Len(paths.path_b) /\ Len(paths.path_a) > 2
    /\ axioms.conclusion = <<"comp_a", " = ", "comp_b">>
    /\ Len(ComposePremises) = 4

-----------------------------------------------------------------------------
(* Properties of the check-well-formed tool *)

\* the prover run ended in the syntax-error outcome
SyntaxErrorRun ==
    /\ proc.event = "exit"
    /\ TP \notin Range(proc.stdout) /\ SF \notin Range(proc.stdout)
    /\ FE \in Range(proc.stderr)

\* C19: check-well-formed answers valid = false exactly when the prover run
\* ended in the syntax-error outcome (no "THEOREM PROVED" and no "SEARCH
\* FAILED" in stdout, "Fatal error" in stderr), valid = true for every other
\* outcome, and details is the outcome _run_prover returned, unchanged.
C19_WellFormed ==
    (pc = "responded" /\ timeout = CheckTimeout) =>
        /\ response.tool = "check-well-formed"
        /\ ~response.valid <=> SyntaxErrorRun
        /\ response.details = result

\* check-well-formed has answered valid = false
C19_Witness ==
    /\ pc = "responded" /\ timeout = CheckTimeout
    /\ response.tool = "check-well-formed" /\ ~response.valid
    /\ response.details.result = "error"

=============================================================================
